---- MODULE Spec2Model ----
(***************************************************************************)
(* Pulse generator firmware (main/pulse.c, second program, lines 279-681): *)
(* the serial configuration dialogue, the per-channel pulse_task and the   *)
(* supervisory loop of app_main with its pause/resume toggle.              *)
(*                                                                         *)
(* Scheduling: app_main runs at the ESP-IDF main-task priority (1), the    *)
(* pulse tasks are created at priority 3 (line 639) on a single core.  A   *)
(* pulse task therefore runs from the moment it becomes ready until its    *)
(* next blocking call (vTaskDelay) without app_main running in between,    *)
(* and it starts running inside xTaskCreate.  app_main can be preempted    *)
(* between any two of its statements.  Each pulse-task action below is one *)
(* such run-to-block segment; app_main is split at every access to a       *)
(* variable the tasks share.                                               *)
(*                                                                         *)
(* Time: the tick counter (in ms, portTICK_PERIOD_MS = 1) and the task's   *)
(* last_pulse_time occur in the code only in the difference of line 523,   *)
(* current_time - last_pulse_time.  The model keeps that difference,       *)
(* elapsed_ms, modulo 2^TickBits the way the code keeps it modulo 2^32: a  *)
(* tick adds one to it, the sample of a pulse (520, stored at 529) sets it *)
(* to zero, and at task start (last_pulse_time = 0) it is the uptime.  How *)
(* long a blocking call (vTaskDelay, the 100 ms serial read) lasts is left *)
(* open: the caller resumes at some later step, after any number of ticks. *)
(***************************************************************************)
EXTENDS Integers, Sequences, FiniteSets, TLC

\* ---------------------------------------------------------------- bounds
TickBits == 2
MaxPulseCount == 2

TickMod == 2 ^ TickBits

\* ------------------------------------------------------ program constants
MAX_PPS == 1000
MIN_PPS == 1
MAX_INTERVAL_MS == 3600000
MIN_INTERVAL_MS == 1000 \div MAX_PPS
MIN_PULSE_MS == 1
MAX_PULSE_MS == 10000
MIN_SAFE_INTERVAL_MS == 2
MIN_PULSE_LIMIT == 1
MAX_PULSE_LIMIT == 1000000
INPUT_SIZE == 12
\* an end-of-run loop that stops one iteration early: what C12 guards against
END_TOGGLES_OneShort == 3 - 1
END_TOGGLES == 3

Ch == 1 .. 2

\* ------------------------------------------------------------ serial input
Digits == {"0", "1", "2", "3", "4", "5", "6", "7", "8", "9"}

DigitVal(c) ==
  CASE c = "0" -> 0 [] c = "1" -> 1 [] c = "2" -> 2 [] c = "3" -> 3
    [] c = "4" -> 4 [] c = "5" -> 5 [] c = "6" -> 6 [] c = "7" -> 7
    [] c = "8" -> 8 [] c = "9" -> 9

\* atoi over the NUL-terminated input buffer (digits only by construction)
RECURSIVE atoi(_)
atoi(buf) ==
  IF Len(buf) = 0 THEN 0
  ELSE 10 * atoi(SubSeq(buf, 1, Len(buf) - 1)) + DigitVal(buf[Len(buf)])

\* The key loop of read_int_from_uart: keys[k..] are consumed one by one into
\* input[] at position index.  A backspace only moves index back; the
\* character stays in the buffer until it is overwritten.
RECURSIVE ReadKeys(_, _, _, _)
ReadKeys(keys, k, buf, index) ==
  IF index >= INPUT_SIZE - 1 THEN [done |-> TRUE, used |-> k - 1, buf |-> buf, index |-> index]
  ELSE IF k > Len(keys) THEN [done |-> FALSE, used |-> k - 1, buf |-> buf, index |-> index]
  ELSE LET c == keys[k] IN
    IF c = "CR" \/ c = "LF" THEN
      IF index > 0 THEN [done |-> TRUE, used |-> k, buf |-> buf, index |-> index]
      ELSE ReadKeys(keys, k + 1, buf, index)
    ELSE IF c = "BS" \/ c = "DEL" THEN
      ReadKeys(keys, k + 1, buf, IF index > 0 THEN index - 1 ELSE index)
    ELSE IF c \in Digits THEN
      ReadKeys(keys, k + 1,
               IF index < Len(buf) THEN [buf EXCEPT ![index + 1] = c] ELSE Append(buf, c),
               index + 1)
    ELSE ReadKeys(keys, k + 1, buf, index)

\* The operator has typed a complete entry: the key loop ends on its last key.
LineComplete(keys) ==
  LET r == ReadKeys(keys, 1, <<>>, 0) IN r.done /\ r.used = Len(keys)

read_int_from_uart(keys, min_val, max_val) ==
  LET r == ReadKeys(keys, 1, <<>>, 0)
      value == atoi(r.buf)
  IN IF r.index = 0 THEN -1
     ELSE IF value < min_val \/ value > max_val THEN -1
     ELSE value

ask_number_of_outputs(c) ==
  IF c \in {"1", "2", "3"} THEN DigitVal(c) ELSE 1

\* a conversion that rounds to the nearest millisecond instead of
\* truncating: what C14 guards against
ask_pps_configRounding(c, keys) ==
  IF c = "P" \/ c = "p" THEN
    LET pps == read_int_from_uart(keys, MIN_PPS, MAX_PPS) IN
      IF pps < 0 THEN -1 ELSE (1000 + pps \div 2) \div pps
  ELSE read_int_from_uart(keys, MIN_INTERVAL_MS, MAX_INTERVAL_MS)

ask_pps_config(c, keys) ==
  IF c = "P" \/ c = "p" THEN
    LET pps == read_int_from_uart(keys, MIN_PPS, MAX_PPS) IN
      IF pps < 0 THEN -1 ELSE 1000 \div pps
  ELSE read_int_from_uart(keys, MIN_INTERVAL_MS, MAX_INTERVAL_MS)

select_mode(c) ==
  IF c = "D" \/ c = "d" THEN "MODE_DEFINED" ELSE "MODE_RANDOM"

ask_pulse_limit(c, keys) ==
  IF c = "S" \/ c = "s" THEN read_int_from_uart(keys, MIN_PULSE_LIMIT, MAX_PULSE_LIMIT)
  ELSE 0

\* a configure_output that reports success whatever the answers were (the
\* two early returns of lines 559-561 and 565-567 missing): what C11 guards
\* against
configure_outputNeverFails(c, in) ==
  LET interval == ask_pps_config(in.cfgkey, in.num)
      c1 == [c EXCEPT !.interval_ms = interval]
      dur == read_int_from_uart(in.dur, MIN_PULSE_MS, MAX_PULSE_MS)
      c2 == [c1 EXCEPT !.pulse_duration_ms = dur]
  IN [ok |-> TRUE,
      cfg |-> IF interval < 0 THEN c1
              ELSE IF dur < 0 THEN c2
              ELSE [c2 EXCEPT !.mode = select_mode(in.modekey),
                              !.max_pulses = ask_pulse_limit(in.limkey, in.lim),
                              !.pps = 1000 \div interval,
                              !.state = "STATE_STOPPED",
                              !.pulse_count = 0]]

\* configure_output on the static slot c: the fields are written as the
\* answers arrive, so a failed attempt leaves its partial writes behind.
configure_output(c, in) ==
  LET interval == ask_pps_config(in.cfgkey, in.num)
      c1 == [c EXCEPT !.interval_ms = interval]
      dur == read_int_from_uart(in.dur, MIN_PULSE_MS, MAX_PULSE_MS)
      c2 == [c1 EXCEPT !.pulse_duration_ms = dur]
  IN IF interval < 0 THEN [ok |-> FALSE, cfg |-> c1]
     ELSE IF dur < 0 THEN [ok |-> FALSE, cfg |-> c2]
     ELSE [ok |-> TRUE,
           cfg |-> [c2 EXCEPT !.mode = select_mode(in.modekey),
                              !.max_pulses = ask_pulse_limit(in.limkey, in.lim),
                              !.pps = 1000 \div interval,
                              !.state = "STATE_STOPPED",
                              !.pulse_count = 0]]

\* ------------------------------------------------- what the operator types
MenuKeys == {"1", "3", "x"}
ConfigKeys == {"I", "P"}
ModeKeys == {"D", "R"}
LimitKeys == {"S", "N"}
ConfirmKeys == {"CR", "C"}
MonitorKeys == {" ", "x"}
IntervalLines ==
  {<<"0", "CR">>, <<"1", "CR">>, <<"CR", "3", "CR">>}
PpsLines ==
  {<<"5", "0", "0", "CR">>, <<"1", "0", "0", "1", "CR">>}
PulseLines ==
  {<<"0", "CR">>, <<"1", "CR">>, <<"3", "BS", "2", "CR">>}
LimitLines ==
  {<<"0", "CR">>, <<"1", "CR">>, <<"2", "CR">>}

ConfigInputs ==
  { in \in [cfgkey : ConfigKeys, num : IntervalLines \cup PpsLines, dur : PulseLines,
            modekey : ModeKeys, limkey : LimitKeys, lim : LimitLines] :
      /\ in.cfgkey = "P" <=> in.num \in PpsLines
      /\ LineComplete(in.num) /\ LineComplete(in.dur) /\ LineComplete(in.lim) }

\* What is typed when both outputs are in use: a 3 ms interval or a rejected
\* one, a 1 ms pulse, fixed mode, a limit of 1 or 2 pulses.
DualInputs ==
  { in \in ConfigInputs :
      /\ in.num \in {<<"CR", "3", "CR">>, <<"0", "CR">>}
      /\ in.dur = <<"1", "CR">>
      /\ in.modekey = "D"
      /\ in.limkey = "S" /\ in.lim \in {<<"1", "CR">>, <<"2", "CR">>} }

OperatorInputs(outputs) ==
  IF outputs = 2 THEN DualInputs ELSE ConfigInputs


\* ------------------------------------------------------------------- state
VARIABLES
  app_pc,           \* where app_main is
  idx,              \* the index i of app_main's current for loop
  tasks_running,    \* app_main's local of that name
  active_configs,   \* the static array, indexed 1..2
  active_outputs,
  system_running,
  pause_requested,
  task_pc,          \* where each pulse_task is blocked
  elapsed_ms,       \* per task: tick count - last_pulse_time, as line 523 computes it
  fin_i,            \* pulse_task's index i of the end-of-run loop
  gpio_level,       \* the output latch of each channel's pin
  run_ms,           \* history: the ticks of elapsed_ms during which the phase was not Paused
  pps_call          \* one call of ask_pps_config on its own: the keys typed and its result

vars == <<app_pc, idx, tasks_running, active_configs, active_outputs, system_running,
          pause_requested, task_pc, elapsed_ms, fin_i, gpio_level, run_ms, pps_call>>

\* no call of ask_pps_config on its own is in progress
NoCall ==
  [pc |-> "idle", key |-> "", keys |-> <<>>, result |-> 0]

ZeroConfig ==
  [interval_ms |-> 0, pulse_duration_ms |-> 0, mode |-> "MODE_DEFINED", max_pulses |-> 0,
   pps |-> 0, state |-> "STATE_RUNNING", pulse_count |-> 0]

Init ==
  /\ app_pc = "top"
  /\ idx = 0
  /\ tasks_running = FALSE
  /\ active_configs = [i \in Ch |-> ZeroConfig]
  /\ active_outputs = 0
  /\ system_running = FALSE
  /\ pause_requested = FALSE
  /\ task_pc = [i \in Ch |-> "none"]
  /\ elapsed_ms = [i \in Ch |-> 0]
  /\ fin_i = [i \in Ch |-> 0]
  /\ gpio_level = [i \in Ch |-> 0]
  /\ run_ms = [i \in Ch |-> 0]
  /\ pps_call = NoCall

\* ------------------------------------------------------------- pulse_task
\* lines 504-506: the task's first statements
TaskStart(c) ==
  [c EXCEPT !.state = "STATE_RUNNING", !.pulse_count = 0]

\* a task that runs its first statements (504-506) before it tests its
\* parameter: what C15 guards against
NullConfigTestedLate(c, g) ==
  [pc |-> "deleted", cfg |-> [c EXCEPT !.state = "STATE_RUNNING", !.pulse_count = 0],
   gpio |-> 1]

\* lines 498-501: the task was handed no configuration and deletes itself;
\* c is the slot and g the pin level of the channel it was created for
NullConfigExit(c, g) ==
  [pc |-> "deleted", cfg |-> c, gpio |-> g]

\* a while condition without the test for the unbounded limit 0: what C21
\* guards against
LoopConditionLimitOnly(c, running) ==
  running /\ c.pulse_count < c.max_pulses

\* line 513: the while condition
LoopCondition(c, running) ==
  running /\ (c.max_pulses = 0 \/ c.pulse_count < c.max_pulses)

\* a scheduler without the pause test of line 515: what C4 guards against
PausedPollNever(c) ==
  FALSE

\* line 515
PausedPoll(c) ==
  c.state = "STATE_PAUSED"

\* an interval measured from the end of the previous pulse instead of its
\* start: what C17 guards against
DueIntervalAfterPulseEnd(c) ==
  c.interval_ms + c.pulse_duration_ms

\* line 523: the interval the due test compares with, whatever the mode
DueInterval(c) ==
  c.interval_ms

\* a due test against the pulse duration instead of the interval: what C13
\* guards against
PulseDueAfterPulseDuration(c, e) ==
  e >= c.pulse_duration_ms

\* line 523, e being current_time - last_pulse_time
PulseDue(c, e) ==
  e >= DueInterval(c)

\* line 536
TaskStop(c) ==
  [c EXCEPT !.state = "STATE_STOPPED"]

\* a loop that emits the pulse without counting it: what C16 guards against
CountPulseForgotten(c) ==
  c

\* line 528, after generate_pulse has returned
CountPulse(c) ==
  [c EXCEPT !.pulse_count = c.pulse_count + 1]

\* One evaluation of the while loop up to the task's next blocking call:
\* line 513, then 515-517, or 520-527 up to the delay inside
\* generate_pulse, or 532; on loop exit 536-541.  e is the elapsed time at
\* the sample of line 520, g the level of the pin.
PulseLoopStep(c, e, g, running) ==
  IF LoopCondition(c, running) THEN
    IF PausedPoll(c) THEN [pc |-> "pause_delay", cfg |-> c, e |-> e, gpio |-> g]
    ELSE IF PulseDue(c, e) /\ c.pulse_count < MaxPulseCount
      THEN [pc |-> "pulse_delay", cfg |-> c, e |-> 0, gpio |-> 0]
      ELSE [pc |-> "poll_delay", cfg |-> c, e |-> e, gpio |-> g]
  ELSE [pc |-> "fin_low", cfg |-> TaskStop(c), e |-> 0, gpio |-> 0]

\* The task blocks with the result r of a loop evaluation.
TaskBlocks(i, r) ==
  /\ active_configs' = [active_configs EXCEPT ![i] = r.cfg]
  /\ task_pc' = [task_pc EXCEPT ![i] = r.pc]
  /\ elapsed_ms' = [elapsed_ms EXCEPT ![i] = r.e]
  /\ gpio_level' = [gpio_level EXCEPT ![i] = r.gpio]
  /\ run_ms' = [run_ms EXCEPT ![i] = IF r.pc \in {"pulse_delay", "fin_low"} THEN 0 ELSE @]

\* vTaskDelay(1) at 532 or vTaskDelay(100) at 516 has expired
TaskPoll(i) ==
  /\ task_pc[i] \in {"poll_delay", "pause_delay"}
  /\ TaskBlocks(i, PulseLoopStep(active_configs[i], elapsed_ms[i], gpio_level[i],
                                 system_running))
  /\ UNCHANGED <<app_pc, idx, tasks_running, active_outputs, system_running,
                 pause_requested, fin_i>>
  /\ UNCHANGED pps_call

\* the delay inside generate_pulse has expired: 473, 528-529, then 532
TaskPulseEnd(i) ==
  /\ task_pc[i] = "pulse_delay"
  /\ active_configs' = [active_configs EXCEPT ![i] = CountPulse(@)]
  /\ gpio_level' = [gpio_level EXCEPT ![i] = 1]
  /\ task_pc' = [task_pc EXCEPT ![i] = "poll_delay"]
  /\ UNCHANGED <<app_pc, idx, tasks_running, active_outputs, system_running,
                 pause_requested, elapsed_ms, fin_i, run_ms>>
  /\ UNCHANGED pps_call

\* lines 539-546: the end-of-run signal, one half period per step
TaskFinish(i) ==
  /\ task_pc[i] \in {"fin_low", "fin_high"}
  /\ IF task_pc[i] = "fin_low"
       THEN /\ gpio_level' = [gpio_level EXCEPT ![i] = 1]
            /\ task_pc' = [task_pc EXCEPT ![i] = "fin_high"]
            /\ UNCHANGED fin_i
       ELSE IF fin_i[i] + 1 < END_TOGGLES
         THEN /\ fin_i' = [fin_i EXCEPT ![i] = @ + 1]
              /\ gpio_level' = [gpio_level EXCEPT ![i] = 0]
              /\ task_pc' = [task_pc EXCEPT ![i] = "fin_low"]
         ELSE /\ fin_i' = [fin_i EXCEPT ![i] = @ + 1]
              /\ task_pc' = [task_pc EXCEPT ![i] = "deleted"]
              /\ UNCHANGED gpio_level
  /\ UNCHANGED <<app_pc, idx, tasks_running, active_configs, active_outputs,
                 system_running, pause_requested, elapsed_ms, run_ms>>
  /\ UNCHANGED pps_call

\* ------------------------------------------------------- handle_pause_system
\* line 478
PauseToggle(requested) ==
  ~requested

\* a toggle with the two branches exchanged: what C20 guards against
PausePhaseInverted(c, requested) ==
  [c EXCEPT !.state = IF requested THEN "STATE_RUNNING" ELSE "STATE_PAUSED"]

\* a toggle that also restarts the channel's count: what C19 guards against
PausePhaseRestartsCount(c, requested) ==
  [c EXCEPT !.state = IF requested THEN "STATE_PAUSED" ELSE "STATE_RUNNING",
            !.pulse_count = 0]

\* lines 483 and 488: the phase written to every active channel
PausePhase(c, requested) ==
  [c EXCEPT !.state = IF requested THEN "STATE_PAUSED" ELSE "STATE_RUNNING"]

\* line 657
ChannelAlive(c) ==
  c.state # "STATE_STOPPED"

\* ---------------------------------------------------------------- app_main
\* lines 587-595: a new configuration cycle
AskNumberOfOutputs(c) ==
  /\ app_pc = "top"
  /\ system_running' = FALSE
  /\ pause_requested' = FALSE
  /\ active_outputs' = (IF ask_number_of_outputs(c) = 3 THEN 2 ELSE ask_number_of_outputs(c))
  /\ idx' = 0
  /\ app_pc' = "configure"
  /\ UNCHANGED <<tasks_running, active_configs, task_pc, elapsed_ms, fin_i, gpio_level,
                 run_ms>>
  /\ UNCHANGED pps_call

\* lines 598-610: one iteration of the configuration loop; a failure leaves
\* the loop and waits 2 s before the next cycle
ConfigureChannel ==
  /\ app_pc = "configure"
  /\ idx < active_outputs
  /\ \E in \in OperatorInputs(active_outputs) :
       LET r == configure_output(active_configs[idx + 1], in) IN
         /\ active_configs' = [active_configs EXCEPT ![idx + 1] = r.cfg]
         /\ IF r.ok
              THEN /\ gpio_level' = [gpio_level EXCEPT ![idx + 1] = 1]
                   /\ idx' = (IF idx + 1 < active_outputs THEN idx + 1 ELSE 0)
                   /\ app_pc' = (IF idx + 1 < active_outputs THEN "configure" ELSE "confirm")
              ELSE /\ app_pc' = "cfg_delay"
                   /\ idx' = 0
                   /\ UNCHANGED gpio_level
  /\ UNCHANGED <<tasks_running, active_outputs, system_running, pause_requested, task_pc,
                 elapsed_ms, fin_i, run_ms>>
  /\ UNCHANGED pps_call

\* lines 608 and 677-680: the delays before the next cycle.  The end-of-run
\* signal of a task takes 600 ms, the delay after a session 2500 ms: the
\* tasks of the session have deleted themselves when it ends, and their
\* locals are gone with them.
RestartDelay ==
  /\ app_pc \in {"cfg_delay", "end_delay"}
  /\ \A i \in Ch : task_pc[i] \in {"none", "deleted"}
  /\ app_pc' = "top"
  /\ task_pc' = [i \in Ch |-> "none"]
  /\ fin_i' = [i \in Ch |-> 0]
  /\ UNCHANGED <<idx, tasks_running, active_configs, active_outputs, system_running,
                 pause_requested, elapsed_ms, gpio_level, run_ms>>
  /\ UNCHANGED pps_call

\* lines 622-634: cancel, or set the running flag
Confirm(c) ==
  /\ app_pc = "confirm"
  /\ IF c = "C" \/ c = "c"
       THEN /\ app_pc' = "top"
            /\ UNCHANGED <<system_running, idx>>
       ELSE /\ system_running' = TRUE
            /\ idx' = 0
            /\ app_pc' = "create"
  /\ UNCHANGED <<tasks_running, active_configs, active_outputs, pause_requested, task_pc,
                 elapsed_ms, fin_i, gpio_level, run_ms>>
  /\ UNCHANGED pps_call

\* lines 637-644: xTaskCreate for channel idx+1.  The new task has the higher
\* priority: lines 495-506 and its first loop evaluation run before
\* xTaskCreate returns.  With last_pulse_time = 0 the elapsed time of the
\* first due test is the uptime t.
CreateTask(t) ==
  /\ app_pc = "create"
  /\ idx < active_outputs
  /\ TaskBlocks(idx + 1, PulseLoopStep(TaskStart(active_configs[idx + 1]), t, 1,
                                       system_running))
  /\ fin_i' = [fin_i EXCEPT ![idx + 1] = 0]
  /\ IF idx + 1 < active_outputs
       THEN idx' = idx + 1 /\ UNCHANGED <<app_pc, tasks_running>>
       ELSE idx' = 0 /\ app_pc' = "read" /\ tasks_running' = TRUE
  /\ UNCHANGED <<active_outputs, system_running, pause_requested>>
  /\ UNCHANGED pps_call

\* lines 647-655: the 100 ms read of the serial line; k = "" is the timeout.
\* A space enters handle_pause_system (line 478).
MonitorRead(k) ==
  /\ app_pc = "read"
  /\ IF k = " "
       THEN /\ pause_requested' = PauseToggle(pause_requested)
            /\ app_pc' = "pause"
            /\ UNCHANGED tasks_running
       ELSE /\ tasks_running' = FALSE
            /\ app_pc' = "check"
            /\ UNCHANGED pause_requested
  /\ idx' = 0
  /\ UNCHANGED <<active_configs, active_outputs, system_running, task_pc, elapsed_ms,
                 fin_i, gpio_level, run_ms>>
  /\ UNCHANGED pps_call

\* lines 482-489: one iteration of the loop over the active channels
HandlePause ==
  /\ app_pc = "pause"
  /\ idx < active_outputs
  /\ active_configs' = [active_configs EXCEPT ![idx + 1] = PausePhase(@, pause_requested)]
  /\ IF idx + 1 < active_outputs
       THEN idx' = idx + 1 /\ UNCHANGED <<app_pc, tasks_running>>
       ELSE idx' = 0 /\ app_pc' = "check" /\ tasks_running' = FALSE
  /\ UNCHANGED <<active_outputs, system_running, pause_requested, task_pc, elapsed_ms,
                 fin_i, gpio_level, run_ms>>
  /\ UNCHANGED pps_call

\* lines 656-663: one iteration of the loop that looks for a channel not yet
\* stopped, then the 100 ms delay
MonitorCheck ==
  /\ app_pc = "check"
  /\ idx < active_outputs
  /\ IF ChannelAlive(active_configs[idx + 1])
       THEN tasks_running' = TRUE /\ app_pc' = "mon_delay" /\ idx' = 0
       ELSE IF idx + 1 < active_outputs
         THEN idx' = idx + 1 /\ UNCHANGED <<app_pc, tasks_running>>
         ELSE app_pc' = "mon_delay" /\ idx' = 0 /\ UNCHANGED tasks_running
  /\ UNCHANGED <<active_configs, active_outputs, system_running, pause_requested, task_pc,
                 elapsed_ms, fin_i, gpio_level, run_ms>>
  /\ UNCHANGED pps_call

\* line 663 has expired: the loop condition of 644, then 647 or 667-677
MonitorLoop ==
  /\ app_pc = "mon_delay"
  /\ IF tasks_running /\ system_running
       THEN app_pc' = "read" /\ UNCHANGED system_running
       ELSE app_pc' = "end_delay" /\ system_running' = FALSE
  /\ UNCHANGED <<idx, tasks_running, active_configs, active_outputs, pause_requested,
                 task_pc, elapsed_ms, fin_i, gpio_level, run_ms>>
  /\ UNCHANGED pps_call

\* ------------------------------------------------------------------- clock
\* One tick of the FreeRTOS counter, seen by every task inside its loop.
Tick ==
  /\ \E i \in Ch : task_pc[i] \in {"poll_delay", "pause_delay", "pulse_delay"}
  /\ elapsed_ms' = [i \in Ch |->
                      IF task_pc[i] \in {"poll_delay", "pause_delay", "pulse_delay"}
                      THEN (elapsed_ms[i] + 1) % TickMod ELSE elapsed_ms[i]]
  /\ run_ms' = [i \in Ch |->
                  IF /\ task_pc[i] \in {"poll_delay", "pause_delay", "pulse_delay"}
                     /\ active_configs[i].state # "STATE_PAUSED"
                     /\ run_ms[i] < TickMod - 1
                  THEN run_ms[i] + 1 ELSE run_ms[i]]
  /\ UNCHANGED <<app_pc, idx, tasks_running, active_configs, active_outputs,
                 system_running, pause_requested, task_pc, fin_i, gpio_level>>
  /\ UNCHANGED pps_call

Next ==
  \/ \E c \in MenuKeys : AskNumberOfOutputs(c)
  \/ ConfigureChannel
  \/ RestartDelay
  \/ \E c \in ConfirmKeys : Confirm(c)
  \/ \E t \in 0 .. TickMod - 1 : CreateTask(t)
  \/ \E k \in MonitorKeys \cup {""} : MonitorRead(k)
  \/ HandlePause
  \/ MonitorCheck
  \/ MonitorLoop
  \/ \E i \in Ch : TaskPoll(i)
  \/ \E i \in Ch : TaskPulseEnd(i)
  \/ \E i \in Ch : TaskFinish(i)
  \/ Tick

Spec == Init /\ [][Next]_vars

\* Scheduling of the tasks: every task that can run does run (FreeRTOS runs
\* the ready task of highest priority), the tick counter advances, and a
\* task polling every tick does not miss the tick at which a pulse is due.
\* What the operator types is left open.
PulseStart(i) ==
  TaskPoll(i) /\ task_pc'[i] = "pulse_delay"

Fairness ==
  /\ WF_vars(Tick)
  /\ WF_vars(\E t \in 0 .. TickMod - 1 : CreateTask(t))
  /\ WF_vars(\E k \in MonitorKeys \cup {""} : MonitorRead(k))
  /\ WF_vars(HandlePause)
  /\ WF_vars(MonitorCheck)
  /\ WF_vars(MonitorLoop)
  /\ WF_vars(RestartDelay)
  /\ \A i \in Ch : /\ WF_vars(TaskPoll(i))
                    /\ SF_vars(PulseStart(i))
                    /\ WF_vars(TaskPulseEnd(i))
                    /\ WF_vars(TaskFinish(i))

FairSpec == Init /\ [][Next]_vars /\ Fairness

\* ------------------------------------------------------------ vocabulary
\* channel i has passed configure_output in the current cycle
Accepted(i) ==
  /\ i <= active_outputs
  /\ \/ app_pc = "configure" /\ i <= idx
     \/ app_pc \in {"confirm", "create", "read", "pause", "check", "mon_delay"}

\* the session was started with channel i in it
Started(i) ==
  system_running /\ i <= active_outputs

\* the pulse task of channel i is inside its while loop
InLoop(i) ==
  task_pc[i] \in {"poll_delay", "pause_delay", "pulse_delay"}

\* the pulse task of channel i has left its while loop
Finished(i) ==
  task_pc[i] \in {"fin_low", "fin_high", "deleted"}

STATE_OF(i) == active_configs[i].state

\* a step in which the pulse task of channel i drives its line low for a pulse
PulseStartsStep(i) ==
  task_pc[i] # "pulse_delay" /\ task_pc'[i] = "pulse_delay"

\* a step in which the pulse counter of channel i is incremented
PulseCountedStep(i) ==
  active_configs'[i].pulse_count = active_configs[i].pulse_count + 1

\* the values esp_random() is taken to return
MaxDraw == 3
Draws == 0 .. MaxDraw

\* The interval the due test of line 523 uses when the random source yields
\* r: the loop of lines 513-533 never reads the mode nor draws a number.
IntervalOfDraw(c, r) ==
  DueInterval(c)

\* The first program's pulse_task, lines 164-170: the interval of one pulse
\* when esp_random() yields r.
IntervalOfDrawFirstProgram(c, r) ==
  LET interval == IF c.mode = "MODE_RANDOM" THEN (r % c.interval_ms) + 1 ELSE c.interval_ms
  IN IF interval <= c.pulse_duration_ms THEN c.pulse_duration_ms + 1 ELSE interval

\* ---------------------------------------------------------------- claims

\* C1: every channel the configuration dialogue has accepted has a pulse
\* duration strictly below its interval (a pair with pulse_duration_ms >=
\* interval_ms is rejected and yields no configuration).
C1_ValidatorRejectsPulseNotShorter ==
  \A i \in Ch :
    Accepted(i) => active_configs[i].pulse_duration_ms < active_configs[i].interval_ms

\* C2: while a scheduler is in its run loop, the interval of its due test is
\* strictly greater than the channel's pulse duration, which is positive.
C2_DueIntervalAbovePulse ==
  \A i \in Ch :
    InLoop(i) => /\ 0 < active_configs[i].pulse_duration_ms
                 /\ active_configs[i].pulse_duration_ms < DueInterval(active_configs[i])

\* C3: time spent paused does not count toward the next interval: a pulse
\* after the first starts only when a full interval has elapsed in states
\* where the channel's phase was not Paused.
C3_PausedTimeNotCounted ==
  [][\A i \in Ch :
       (PulseStartsStep(i) /\ active_configs[i].pulse_count >= 1)
         => run_ms[i] >= DueInterval(active_configs[i])]_vars

\* C4 as stated: the scheduler neither drives the line low for a pulse nor
\* increments the pulse counter in a state where the phase is Paused.
C4_NoPulseNorCountWhilePaused ==
  [][\A i \in Ch :
       (PulseStartsStep(i) \/ PulseCountedStep(i))
         => active_configs'[i].state # "STATE_PAUSED"]_vars

\* C4 as amended: the scheduler never starts a pulse (drives the line low)
\* in a state where the phase is Paused.
C4_NoPulseStartedWhilePaused ==
  [][\A i \in Ch :
       PulseStartsStep(i) => /\ active_configs[i].state # "STATE_PAUSED"
                             /\ active_configs'[i].state # "STATE_PAUSED"]_vars

\* C4 witness: the scheduler has polled a Paused channel whose pulse is due
\* and sleeps in the paused poll with the line at its idle level.
C4_PausedWithPulseDue ==
  \E i \in Ch : /\ task_pc[i] = "pause_delay"
                 /\ STATE_OF(i) = "STATE_PAUSED"
                 /\ PulseDue(active_configs[i], elapsed_ms[i])
                 /\ gpio_level[i] = 1

\* C5: a scheduler started with a non-zero limit N never counts beyond N,
\* and has counted exactly N when it has left its loop with the running
\* flag still set.
C5_LimitExact ==
  \A i \in Ch :
    (Started(i) /\ task_pc[i] # "none" /\ active_configs[i].max_pulses # 0)
      => /\ active_configs[i].pulse_count <= active_configs[i].max_pulses
         /\ Finished(i) => active_configs[i].pulse_count = active_configs[i].max_pulses

\* C5 for the limits the dialogue is meant to let through, N >= 1
LimitExactForPositiveLimit ==
  \A i \in Ch :
    (Started(i) /\ task_pc[i] # "none" /\ active_configs[i].max_pulses >= 1)
      => /\ active_configs[i].pulse_count <= active_configs[i].max_pulses
         /\ Finished(i) => active_configs[i].pulse_count = active_configs[i].max_pulses

\* C6: once a session has started in which every active channel has a
\* non-zero limit, and if the operator does not keep the system paused, the
\* supervisory loop ends and reports the summary.
C6_SessionEnds ==
  (<>[](~pause_requested))
    => []((app_pc = "read" /\ \A i \in 1 .. active_outputs : active_configs[i].max_pulses # 0)
            => <>(app_pc = "end_delay"))

\* C7: a channel that has become Stopped after its run stays Stopped.
C7_StoppedIsTerminal ==
  [][\A i \in Ch :
       (Finished(i) /\ active_configs[i].state = "STATE_STOPPED")
         => active_configs'[i].state = "STATE_STOPPED"]_vars

\* C8: for a running Random-mode channel with base interval above the pulse
\* duration, every interval the scheduler uses lies in
\* [pulse_duration_ms + 1, base], and more than one value occurs when
\* base > pulse_duration_ms + 1.
C8_RandomIntervalRange ==
  \A i \in Ch :
    LET c == active_configs[i] IN
      (InLoop(i) /\ c.mode = "MODE_RANDOM" /\ c.interval_ms > c.pulse_duration_ms)
        => /\ \A r \in Draws :
                IntervalOfDraw(c, r) \in (c.pulse_duration_ms + 1) .. c.interval_ms
           /\ c.interval_ms > c.pulse_duration_ms + 1
                => \E r1, r2 \in Draws : IntervalOfDraw(c, r1) # IntervalOfDraw(c, r2)

\* C8 on the first program's interval computation (lines 164-170)
RandomIntervalRangeFirstProgram ==
  \A i \in Ch :
    LET c == active_configs[i] IN
      (InLoop(i) /\ c.mode = "MODE_RANDOM" /\ c.interval_ms > c.pulse_duration_ms)
        => /\ \A r \in Draws :
                IntervalOfDrawFirstProgram(c, r) \in (c.pulse_duration_ms + 1) .. c.interval_ms
           /\ c.interval_ms > c.pulse_duration_ms + 1
                => \E r1, r2 \in Draws :
                     IntervalOfDrawFirstProgram(c, r1) # IntervalOfDrawFirstProgram(c, r2)

\* C9: every channel of a started session has interval_ms in [2, 3600000].
C9_IntervalInRange ==
  \A i \in Ch :
    Started(i) => active_configs[i].interval_ms \in MIN_SAFE_INTERVAL_MS .. MAX_INTERVAL_MS

\* C10: every channel of a started session has a pulse limit that is 0 or
\* lies in [1, 1000000].
C10_LimitInRange ==
  \A i \in Ch :
    Started(i) => \/ active_configs[i].max_pulses = 0
                  \/ active_configs[i].max_pulses \in MIN_PULSE_LIMIT .. MAX_PULSE_LIMIT

\* the slot holds the error value of a failed configure_output (558, 563)
Rejected(c) ==
  c.interval_ms < 0 \/ c.pulse_duration_ms < 0

\* C11: while a channel of the session holds a failed configuration, the
\* running flag is cleared, no pulse task exists for any channel, and
\* app_main is in the configuration dialogue or in the delay that leads
\* back to it.
C11_FailedSessionNotStarted ==
  (\E i \in 1 .. active_outputs : Rejected(active_configs[i]))
    => /\ ~system_running
       /\ \A j \in Ch : task_pc[j] = "none"
       /\ app_pc \in {"top", "configure", "cfg_delay"}

\* C11 witness: a session of two outputs, the first configured successfully,
\* the second rejected, app_main in the delay of line 608.
C11_SecondChannelRejected ==
  /\ app_pc = "cfg_delay"
  /\ active_outputs = 2
  /\ ~Rejected(active_configs[1])
  /\ active_configs[1].interval_ms > 0
  /\ Rejected(active_configs[2])

\* C12: a scheduler that leaves its run drives its line low and high exactly
\* three times: it enters the signal with the line low and no toggle done,
\* every low is followed by a high, a further low follows only while fewer
\* than three toggles are done, the task ends after the third high with the
\* line high, and no step of the signal changes the pulse counter.
C12_EndOfRunSignal ==
  [][\A i \in Ch :
       /\ (~Finished(i) /\ Finished(i)')
            => task_pc'[i] = "fin_low" /\ gpio_level'[i] = 0 /\ fin_i'[i] = 0
       /\ (Finished(i) /\ Finished(i)')
            => /\ active_configs'[i].pulse_count = active_configs[i].pulse_count
               /\ (task_pc[i] = "fin_low" /\ task_pc'[i] # "fin_low")
                    => /\ task_pc'[i] = "fin_high"
                       /\ gpio_level'[i] = 1
                       /\ fin_i'[i] = fin_i[i]
               /\ (task_pc[i] = "fin_high" /\ task_pc'[i] = "fin_low")
                    => /\ gpio_level'[i] = 0
                       /\ fin_i'[i] = fin_i[i] + 1
                       /\ fin_i'[i] < 3
               /\ (task_pc[i] = "fin_high" /\ task_pc'[i] = "deleted")
                    => /\ gpio_level'[i] = 1
                       /\ fin_i'[i] = 3
               /\ task_pc[i] = "deleted" => task_pc'[i] = "deleted"
               /\ task_pc[i] = task_pc'[i]
                    => gpio_level'[i] = gpio_level[i] /\ fin_i'[i] = fin_i[i]]_vars

\* C12 witness: a task that has emitted a pulse has ended after its signal.
C12_TaskEndedAfterSignal ==
  \E i \in Ch : /\ task_pc[i] = "deleted"
                 /\ active_configs[i].pulse_count >= 1
                 /\ fin_i[i] = 3
                 /\ gpio_level[i] = 1

MaxPpsDigits == 4
PpsEntries ==
  { Append(d, "CR") : d \in UNION { [1 .. n -> Digits] : n \in 1 .. MaxPpsDigits } }

appvars == <<app_pc, idx, tasks_running, active_configs, active_outputs, system_running,
             pause_requested, task_pc, elapsed_ms, fin_i, gpio_level, run_ms>>

\* lines 428-432: the operator chooses P (or p) and types a number
PpsAsk ==
  /\ pps_call.pc = "idle"
  /\ \E k \in {"P", "p"}, e \in PpsEntries :
       pps_call' = [pc |-> "asked", key |-> k, keys |-> e, result |-> 0]
  /\ UNCHANGED appvars

\* lines 431-437: the value ask_pps_config returns for what was typed
PpsAnswer ==
  /\ pps_call.pc = "asked"
  /\ pps_call' = [pps_call EXCEPT !.pc = "done",
                                  !.result = ask_pps_config(pps_call.key, pps_call.keys)]
  /\ UNCHANGED appvars

\* the caller has taken the value: the next call can be made
PpsReturn ==
  /\ pps_call.pc = "done"
  /\ pps_call' = NoCall
  /\ UNCHANGED appvars

PpsNext ==
  \/ PpsAsk
  \/ PpsAnswer
  \/ PpsReturn

PpsSpec == Init /\ [][PpsNext]_vars

\* the number the operator typed: the digits before ENTER, read as a decimal
RECURSIVE TypedNumber(_, _, _)
TypedNumber(keys, k, acc) ==
  IF k > Len(keys) \/ keys[k] \notin Digits THEN acc
  ELSE TypedNumber(keys, k + 1, 10 * acc + DigitVal(keys[k]))

\* C14: for a typed pps in [1, 1000] the interval returned is the integer
\* quotient of 1000 by pps, truncated (interval * pps <= 1000 <
\* (interval + 1) * pps); for a typed pps outside [1, 1000] the error value
\* is returned and no interval.
C14_PpsTruncatingDivision ==
  pps_call.pc = "done"
    => LET pps == TypedNumber(pps_call.keys, 1, 0)
           interval_ms == pps_call.result
       IN IF pps \in 1 .. 1000
            THEN /\ interval_ms * pps <= 1000
                 /\ 1000 < (interval_ms + 1) * pps
                 /\ interval_ms >= 1
            ELSE interval_ms = -1

\* C14 witness: 3 PPS has been converted to 333 ms.
C14_ThreePpsConverted ==
  /\ pps_call.pc = "done"
  /\ pps_call.keys = <<"3", "CR">>
  /\ pps_call.result = 333

\* ------------------------------------- pulse_task without a configuration
\* xTaskCreate as at line 639, but with a null parameter for channel idx+1:
\* the task runs lines 495-500 before xTaskCreate returns.
CreateTaskNull ==
  /\ app_pc = "create"
  /\ idx < active_outputs
  /\ LET r == NullConfigExit(active_configs[idx + 1], gpio_level[idx + 1]) IN
       /\ task_pc' = [task_pc EXCEPT ![idx + 1] = r.pc]
       /\ active_configs' = [active_configs EXCEPT ![idx + 1] = r.cfg]
       /\ gpio_level' = [gpio_level EXCEPT ![idx + 1] = r.gpio]
  /\ IF idx + 1 < active_outputs
       THEN idx' = idx + 1 /\ UNCHANGED <<app_pc, tasks_running>>
       ELSE idx' = 0 /\ app_pc' = "read" /\ tasks_running' = TRUE
  /\ UNCHANGED <<active_outputs, system_running, pause_requested, elapsed_ms, fin_i,
                 run_ms, pps_call>>

NullNext ==
  \/ Next
  \/ CreateTaskNull

NullSpec == Init /\ [][NullNext]_vars

\* a step in which a task ends without having run: it was handed no
\* configuration
NullStartStep(i) ==
  task_pc[i] = "none" /\ task_pc'[i] = "deleted"

\* C15: a task started without a configuration ends at once: no output
\* line changes, no pulse is started or counted, the phase, counter and
\* task of every channel (the sibling's included) and the running and pause
\* flags are as before.
C15_NullConfigTaskEndsAtOnce ==
  [][\A i \in Ch :
       NullStartStep(i)
         => /\ gpio_level' = gpio_level
            /\ active_configs' = active_configs
            /\ \A j \in Ch \ {i} : task_pc'[j] = task_pc[j]
            /\ system_running' = system_running
            /\ pause_requested' = pause_requested]_vars

\* C15 witness: in a session of two outputs the first task runs its loop and
\* the second was started without a configuration.
C15_NullTaskBesideRunningSibling ==
  /\ active_outputs = 2
  /\ task_pc[1] \in {"poll_delay", "pulse_delay"}
  /\ task_pc[2] = "deleted"
  /\ active_configs[2].pulse_count = 0
  /\ fin_i[2] = 0
  /\ system_running

\* a step in which the pulse task of channel i is created and activates the
\* channel (lines 504-506)
ActivationStep(i) ==
  task_pc[i] = "none" /\ task_pc'[i] # "none"

\* C16 as stated: the pulse counter never decreases except in the step that
\* activates the channel, which sets it to 0.
C16_CounterResetOnlyAtActivation ==
  [][\A i \in Ch :
       active_configs'[i].pulse_count < active_configs[i].pulse_count
         => ActivationStep(i) /\ active_configs'[i].pulse_count = 0]_vars

\* C16 as amended: the counter changes only by the increment that ends a
\* pulse, one per pulse, or by a reset to 0 while the channel has no task
\* (when the channel is configured or activated); activation leaves it at
\* 0; and when the supervisory loop goes on to report the summary every
\* active channel's task has left its loop, so the count reported is the
\* number of pulses of the session.
C16_CounterCountsPulsesOfSession ==
  [][\A i \in Ch :
       LET n == active_configs[i].pulse_count
           m == active_configs'[i].pulse_count
       IN /\ m # n => \/ /\ m = n + 1
                          /\ task_pc[i] = "pulse_delay"
                          /\ task_pc'[i] = "poll_delay"
                       \/ /\ m = 0
                          /\ task_pc[i] = "none"
          /\ (task_pc[i] = "pulse_delay" /\ task_pc'[i] # "pulse_delay") => m = n + 1
          /\ ActivationStep(i) => m = 0
          /\ (app_pc # "end_delay" /\ app_pc' = "end_delay" /\ i <= active_outputs)
               => Finished(i) /\ m = n]_vars

\* C16 witness: a second session on channel 1 alone has counted its first
\* pulse, after a session of both channels that ended with channel 2 at 2.
C16_SecondSessionCounting ==
  /\ active_outputs = 1
  /\ task_pc[1] = "poll_delay"
  /\ active_configs[1].pulse_count = 1
  /\ active_configs[2].pulse_count = 2
  /\ active_configs[2].state = "STATE_STOPPED"

\* C17: while the scheduler of a Fixed-mode channel is in its run loop, the
\* interval of its due test is the configured interval_ms whatever the
\* random source would yield, and neither interval_ms nor the mode changes
\* for as long as the task exists.
C17_FixedModeInterval ==
  [][\A i \in Ch :
       LET c == active_configs[i] IN
         (InLoop(i) /\ c.mode = "MODE_DEFINED")
           => /\ \A r \in Draws : IntervalOfDraw(c, r) = c.interval_ms
              /\ task_pc'[i] # "none"
                   => /\ active_configs'[i].interval_ms = c.interval_ms
                      /\ active_configs'[i].mode = c.mode]_vars

\* C17 witness: a Fixed-mode channel with a 3 ms interval has emitted two
\* pulses and is still in its loop.
C17_FixedModeTwoPulses ==
  \E i \in Ch : /\ InLoop(i)
                 /\ active_configs[i].mode = "MODE_DEFINED"
                 /\ active_configs[i].interval_ms = 3
                 /\ active_configs[i].pulse_count = 2

\* C18: no step of a session changes a channel's phase from Paused directly
\* to Stopped.
C18_NoPausedToStopped ==
  [][\A i \in Ch :
       (task_pc[i] # "none" /\ active_configs[i].state = "STATE_PAUSED")
         => active_configs'[i].state # "STATE_STOPPED"]_vars

\* a step of handle_pause_system: the toggle of line 478 or one iteration of
\* its loop over the active channels
PauseToggleStep ==
  \/ app_pc = "read" /\ app_pc' = "pause"
  \/ app_pc = "pause" /\ (app_pc' # "pause" \/ idx' # idx)

\* C19: a step of the pause/resume toggle changes, of the shared state, only
\* pause_requested and the phase of active channels: every other field of
\* every channel, the whole slot of a channel that is not active, the
\* running flag, the number of active outputs, the tasks and the output
\* lines are as before.
C19_PauseToggleFrame ==
  [][PauseToggleStep
       => /\ \A i \in Ch :
               /\ active_configs'[i]
                    = [active_configs[i] EXCEPT !.state = active_configs'[i].state]
               /\ i > active_outputs => active_configs'[i] = active_configs[i]
          /\ system_running' = system_running
          /\ active_outputs' = active_outputs
          /\ task_pc' = task_pc
          /\ gpio_level' = gpio_level
          /\ elapsed_ms' = elapsed_ms]_vars

\* C19 witness: a session of channel 1 alone has been paused after its first
\* pulse; channel 2, not active, has not been given the Paused phase.
C19_PausedAfterFirstPulse ==
  /\ app_pc = "check"
  /\ pause_requested
  /\ active_outputs = 1
  /\ active_configs[1].state = "STATE_PAUSED"
  /\ active_configs[1].pulse_count = 1
  /\ active_configs[2].state # "STATE_PAUSED"

\* C20 as stated: in every state where pause_requested is true, every
\* active channel whose task has not left its run loop has phase Paused.
C20_PauseFlagMatchesPhases ==
  pause_requested
    => \A i \in 1 .. active_outputs : InLoop(i) => STATE_OF(i) = "STATE_PAUSED"

\* C20 as amended: outside handle_pause_system (between its line 478 and
\* the end of its loop the flag is ahead of the phases), the flag and the
\* phases agree for every active channel whose task is in its run loop:
\* Paused when pause_requested is true, Running when it is false.
C20_PauseFlagMatchesPhasesOutsideToggle ==
  app_pc # "pause"
    => \A i \in 1 .. active_outputs :
         InLoop(i) => STATE_OF(i) = (IF pause_requested THEN "STATE_PAUSED"
                                                        ELSE "STATE_RUNNING")

\* C20 witness: both channels of a session are in their loops and paused,
\* the supervisory loop waiting for the next key.
C20_BothChannelsPaused ==
  /\ app_pc = "read"
  /\ pause_requested
  /\ active_outputs = 2
  /\ \A i \in Ch : InLoop(i) /\ STATE_OF(i) = "STATE_PAUSED"

\* C21: the running flag, once set, is cleared only by app_main's step out
\* of the supervisory loop, taken when every active channel's phase is
\* Stopped; while it is set, the task of an active channel with the
\* unbounded limit 0 stays in its run loop and its phase is not Stopped;
\* and a session with such a channel never reaches its end.
C21_RunningFlagUntilAllStopped ==
  [][/\ (system_running /\ ~system_running')
          => /\ app_pc = "mon_delay" /\ app_pc' = "end_delay"
             /\ \A i \in 1 .. active_outputs : STATE_OF(i) = "STATE_STOPPED"
     /\ \A i \in Ch :
          (system_running' /\ i <= active_outputs' /\ task_pc'[i] # "none"
             /\ active_configs'[i].max_pulses = 0)
            => /\ InLoop(i)'
               /\ active_configs'[i].state # "STATE_STOPPED"
     /\ app_pc' = "end_delay"
          => \A i \in 1 .. active_outputs' : active_configs'[i].max_pulses # 0]_vars

\* C21 witness: a session whose only channel is unbounded has emitted two
\* pulses; the flag is set, the task in its loop, app_main waiting for a key.
C21_UnboundedSessionRunning ==
  /\ app_pc = "read"
  /\ system_running
  /\ ~pause_requested
  /\ active_outputs = 1
  /\ active_configs[1].max_pulses = 0
  /\ active_configs[1].pulse_count = 2
  /\ task_pc[1] = "poll_delay"

====
